---- MODULE Spec2Model ----
(***************************************************************************)
(* Hive: a coordinating agent (Queen) that delegates to worker agents,     *)
(* each running the bounded tool-use loop Agent::run against a chat        *)
(* backend.  The backend and the user are the environment: every reply,    *)
(* transport failure and input line is a nondeterministic choice.          *)
(***************************************************************************)
EXTENDS Integers, Sequences, FiniteSets, TLC

VARIABLES
    workers,    \* Queen.workers: role -> worker (queen.rs:9)
    mpc,        \* position of main: "input", "running", "quit", "failed"
    messages,   \* main's `messages`, the coordinator's conversation
    output,     \* the final response main printed last (an Option)
    qpc,        \* position of run_agentic_loop: "idle","top","await","tools","delegating","ret"
    qiter,      \* run_agentic_loop's `iteration`
    qresp,      \* run_agentic_loop's `response` (an Option: <<>> before the first reply)
    qidx,       \* index of the tool call the coordinator's for loop is at
    qret,       \* value returned by run_agentic_loop
    wpc,        \* position of Agent::run: "idle","top","await","tools","ret"
    wrole,      \* role of the worker whose Agent::run is active (an Option)
    wmsgs,      \* Agent::run's `messages`
    witer,      \* Agent::run's `iteration`
    wresp,      \* Agent::run's `response` (an Option)
    widx,       \* index of the tool call the worker's for loop is at
    wret,       \* value returned by Agent::run
    net,        \* the chat request in flight (an Option)
    fs,         \* the file system the tools act on: files and directories
    wfs0,       \* the file system as it was when this Agent::run started
    qreq,       \* chat requests run_agentic_loop has posted for this instruction
    wreq        \* chat requests this Agent::run has posted

vars == <<workers, mpc, messages, output, qpc, qiter, qresp, qidx, qret,
          wpc, wrole, wmsgs, witer, wresp, widx, wret, net, fs, wfs0, qreq, wreq>>

mainVars == <<mpc, output>>
queenVars == <<messages, qpc, qiter, qresp, qidx, qret, qreq>>
workerVars == <<wpc, wrole, wmsgs, witer, wresp, widx, wret, wreq, wfs0>>

-----------------------------------------------------------------------------
(* Bounds of the model and constants of the program.                       *)

\* agent.rs:7
MAX_ITERATIONS == 5

\* The coordinator's conversation is tracked up to this many turns.
MaxTurns == 9

-----------------------------------------------------------------------------
(* Option, Result, Message, ToolCall and JSON values.                      *)

None == <<>>
Some(v) == <<v>>
IsSome(o) == Len(o) = 1
Unwrap(o) == o[1]

Ok(v) == [ok |-> TRUE, val |-> v]
Err(e) == [ok |-> FALSE, val |-> e]

Message(role, content, tool_calls) ==
    [role |-> role, content |-> content, tool_calls |-> tool_calls]

ToolCall(name, arguments) == [name |-> name, arguments |-> arguments]

\* serde_json::Value: the scalars the dispatchers look at, and objects as
\* functions from keys to scalars.
JStr(s) == [kind |-> "string", str |-> s, num |-> 0]
JNumber(n) == [kind |-> "number", str |-> "", num |-> n]
JNull == [kind |-> "null", str |-> "", num |-> 0]
NoArgs == <<>>

\* arguments["key"]: Null when the key is absent
Index(arguments, key) ==
    IF key \in DOMAIN arguments THEN arguments[key] ELSE JNull

\* arguments["key"].as_str().unwrap_or(default)
AsStrOr(arguments, key, default) ==
    LET v == Index(arguments, key)
    IN IF v.kind = "string" THEN v.str ELSE default

\* arguments["key"].as_u64().unwrap_or(default)
AsU64Or(arguments, key, default) ==
    LET v == Index(arguments, key)
    IN IF v.kind = "number" /\ v.num >= 0 THEN v.num ELSE default

\* Option<String>::unwrap_or_default
UnwrapOrDefault(content) == IF IsSome(content) THEN Unwrap(content) ELSE ""

-----------------------------------------------------------------------------
(* Strings.                                                                *)

Contains(s, sub) ==
    \E i \in 1..(Len(s) - Len(sub) + 1) : SubSeq(s, i, i + Len(sub) - 1) = sub

StartsWith(s, pre) == Len(pre) <= Len(s) /\ SubSeq(s, 1, Len(pre)) = pre

\* str::replace: every non-overlapping match of pat, left to right
RECURSIVE Replace(_, _, _)
Replace(s, pat, rep) ==
    LET hits == { i \in 1..(Len(s) - Len(pat) + 1) :
                    SubSeq(s, i, i + Len(pat) - 1) = pat }
    IN IF hits = {} THEN s
       ELSE LET first == CHOOSE i \in hits : \A j \in hits : i <= j
            IN SubSeq(s, 1, first - 1) \o rep
               \o Replace(SubSeq(s, first + Len(pat), Len(s)), pat, rep)

\* [String].join(sep)
RECURSIVE Join(_, _)
Join(strs, sep) ==
    IF Len(strs) = 0 THEN ""
    ELSE IF Len(strs) = 1 THEN strs[1]
    ELSE strs[1] \o sep \o Join(Tail(strs), sep)

-----------------------------------------------------------------------------
(* The environment the tools act on: the process's directory and the file  *)
(* system under it, as the files' contents by path and the set of          *)
(* directories; the shell is a fixed table of commands.                    *)

CurrentDir == "/work"
InitFiles == [files |-> [p \in {"a.txt"} |-> "data"], dirs |-> {"."}]
IoError == "No such file or directory (os error 2)"

\* fs::read_to_string / fs::remove_file succeed
FileExists(files, path) == path \in DOMAIN files.files
\* fs::write / OpenOptions::open(append, create) succeed
CanCreate(files, path) == path # "" /\ path \notin files.dirs
\* fs::create_dir_all succeeds
CanCreateDir(files, path) == path \notin DOMAIN files.files
\* fs::read_dir succeeds
DirExists(files, path) == path = "" \/ path \in files.dirs

\* the file at path holding content, created or overwritten
WriteFile(files, path, content) ==
    [files EXCEPT !.files = [p \in (DOMAIN files.files) \cup {path} |->
                                IF p = path THEN content ELSE files.files[p]]]

RemoveFile(files, path) ==
    [files EXCEPT !.files = [p \in (DOMAIN files.files) \ {path} |-> files.files[p]]]

CreateDir(files, path) ==
    IF path = "" THEN files ELSE [files EXCEPT !.dirs = @ \cup {path}]

\* a set as the sequence in which the file system lists it
RECURSIVE SetToSeq(_)
SetToSeq(S) ==
    IF S = {} THEN << >>
    ELSE LET x == CHOOSE x \in S : TRUE IN <<x>> \o SetToSeq(S \ {x})

\* the entries read_dir yields for path: those of the root are tracked
Entries(files, path) ==
    IF path \in {"", "."}
    THEN SetToSeq((DOMAIN files.files) \cup (files.dirs \ {"."}))
    ELSE << >>

\* json!(files).to_string()
JsonStrings(names) ==
    "[" \o Join([i \in 1..Len(names) |-> "\"" \o names[i] \o "\""], ",") \o "]"

\* str::split on a separator
RECURSIVE Split(_, _)
Split(s, sep) ==
    LET hits == { i \in 1..(Len(s) - Len(sep) + 1) : SubSeq(s, i, i + Len(sep) - 1) = sep }
    IN IF hits = {} THEN <<s>>
       ELSE LET first == CHOOSE i \in hits : \A j \in hits : i <= j
            IN <<SubSeq(s, 1, first - 1)>> \o Split(SubSeq(s, first + Len(sep), Len(s)), sep)

\* str::lines: the pieces between line feeds, without a last empty piece
Lines(s) ==
    LET pieces == Split(s, "\n")
    IN IF pieces[Len(pieces)] = "" THEN SubSeq(pieces, 1, Len(pieces) - 1) ELSE pieces

\* Vec::insert(idx, line), idx counted from 0
InsertLine(lines, idx, line) ==
    SubSeq(lines, 1, idx) \o <<line>> \o SubSeq(lines, idx + 1, Len(lines))

\* str::replacen(pat, rep, 1)
ReplaceFirst(s, pat, rep) ==
    LET hits == { i \in 1..(Len(s) - Len(pat) + 1) : SubSeq(s, i, i + Len(pat) - 1) = pat }
    IN IF hits = {} THEN s
       ELSE LET first == CHOOSE i \in hits : \A j \in hits : i <= j
            IN SubSeq(s, 1, first - 1) \o rep \o SubSeq(s, first + Len(pat), Len(s))

Min(a, b) == IF a <= b THEN a ELSE b

\* sh -c command: <<success, exit code, stdout, stderr>>
ShOutput(files, command) ==
    CASE command = "ls" ->
            <<TRUE, "Some(0)",
              Join([i \in 1..Len(Entries(files, ".")) |-> Entries(files, ".")[i] \o "\n"], ""),
              "">>
      [] command = "" -> <<TRUE, "Some(0)", "", "">>
      [] OTHER -> <<FALSE, "Some(127)", "", "sh: not found\n">>

-----------------------------------------------------------------------------
(* The agents: configuration, tool catalogues and dispatchers.             *)

\* Tool / ToolFunction; of the parameter schema, the required keys and the
\* values the schema allows for "worker"
Tool(name, description, required, enum) ==
    [name |-> name, description |-> description,
     parameters |-> [required |-> required, enum |-> enum]]

\* the worker factories submitted to the inventory (coder.rs:6,
\* file_manager.rs:9, shell.rs:8), by the struct each constructs
Factories == {"Coder", "FileManager", "Shell"}

\* (factory.0)(): the worker a factory constructs, with its Worker methods
Construct(factory) ==
    CASE factory = "Coder" ->
            [role |-> "coder", worker_type |-> "advanced",
             description |-> "Analyzes code, writes code, and provides technical solutions. Give full context and code."]
      [] factory = "FileManager" ->
            [role |-> "file_manager", worker_type |-> "simple",
             description |-> "Manages file system operations including reading, writing, and organizing files"]
      [] factory = "Shell" ->
            [role |-> "shell", worker_type |-> "simple",
             description |-> "Executes command line operations. Can run shell commands and return their output."]

\* the workers keyed by their type instead of their role
QueenNewByType ==
    [type \in {Construct(f).worker_type : f \in Factories} |->
        CHOOSE w \in {Construct(f) : f \in Factories} : w.worker_type = type]

\* Queen::new: collect (worker.role(), worker) into the HashMap
QueenNew ==
    [role \in {Construct(f).role : f \in Factories} |->
        CHOOSE w \in {Construct(f) : f \in Factories} : w.role = role]

\* Agent::system_prompt of each agent: the templates, abridged to a heading
\* and their placeholders
SystemPrompt(agent) ==
    CASE agent = "queen" ->
            "You are the Queen of Hive.\n- Current Directory: {DIRECTORY}\n# Available Workers\n{WORKERS}\n"
      [] agent = "file_manager" ->
            "You are a file operation executor.\n# Current Directory\n{DIRECTORY}\n# Available Tools\n{TOOLS}\n"
      [] agent = "shell" ->
            "You are a shell command executor.\n# Working Directory\n{DIRECTORY}\n# Available Tools\n{TOOLS}\n"
      [] agent = "coder" ->
            "You are an expert software engineer."

REASONING_INSTRUCTIONS ==
    "\n\n# Problem Solving\nYou have up to 5 attempts to complete the request."

\* Agent::get_tools of a worker (the default is the empty catalogue)
GetTools(agent) ==
    CASE agent = "file_manager" ->
            << Tool("read_file", "Read the contents of a file",
                    <<"path">>, {}),
               Tool("write_file", "Write content to a file (creates or overwrites)",
                    <<"path", "content">>, {}),
               Tool("list_directory", "List files and directories in a path",
                    <<"path">>, {}),
               Tool("delete_file", "Delete a file",
                    <<"path">>, {}),
               Tool("create_directory", "Create a directory (and parent directories if needed)",
                    <<"path">>, {}),
               Tool("append_file", "Append content to the end of a file",
                    <<"path", "content">>, {}),
               Tool("insert_at_line", "Insert content at a specific line number (1-indexed)",
                    <<"path", "line_number", "content">>, {}),
               Tool("replace_text", "Find and replace text in a file",
                    <<"path", "old_text", "new_text">>, {}) >>
      [] agent = "shell" ->
            << Tool("execute_command", "Execute a shell command and return its output",
                    <<"command">>, {}) >>
      [] OTHER -> << >>

\* Agent::custom_placeholders
CustomPlaceholders(agent) ==
    IF agent \in {"queen", "file_manager", "shell"}
    THEN << <<"{DIRECTORY}", CurrentDir>> >>
    ELSE << >>

RECURSIVE ApplyPlaceholders(_, _)
ApplyPlaceholders(prompt, placeholders) ==
    IF Len(placeholders) = 0 THEN prompt
    ELSE ApplyPlaceholders(Replace(prompt, placeholders[1][1], placeholders[1][2]),
                           Tail(placeholders))

ToolsList(tools) ==
    IF Len(tools) = 0 THEN "No tools available."
    ELSE Join([i \in 1..Len(tools) |->
                  "- **" \o tools[i].name \o "**: " \o tools[i].description], "\n")

\* Agent::build_system_prompt
BuildSystemPrompt(agent) ==
    LET template == SystemPrompt(agent)
        withTools == IF Contains(template, "{TOOLS}")
                     THEN Replace(template, "{TOOLS}", ToolsList(GetTools(agent)))
                     ELSE template
    IN ApplyPlaceholders(withTools, CustomPlaceholders(agent)) \o REASONING_INSTRUCTIONS

\* what a dispatch yields: the Result it returns and the file system it leaves
Outcome(result, files) == [result |-> result, files |-> files]

\* FileManager::execute_tool
FileManagerExecuteTool(files, name, args) ==
    LET path == AsStrOr(args, "path", "")
        content == AsStrOr(args, "content", "")
    IN CASE name = "read_file" ->
              IF FileExists(files, path) THEN Outcome(Ok(files.files[path]), files)
              ELSE Outcome(Ok("Error reading file: " \o IoError), files)
         [] name = "write_file" ->
              IF CanCreate(files, path)
              THEN Outcome(Ok("Successfully wrote to " \o path), WriteFile(files, path, content))
              ELSE Outcome(Ok("Error writing file: " \o IoError), files)
         [] name = "list_directory" ->
              IF DirExists(files, AsStrOr(args, "path", "."))
              THEN Outcome(Ok(JsonStrings(Entries(files, AsStrOr(args, "path", ".")))), files)
              ELSE Outcome(Ok("Error listing directory: " \o IoError), files)
         [] name = "delete_file" ->
              IF FileExists(files, path)
              THEN Outcome(Ok("Successfully deleted " \o path), RemoveFile(files, path))
              ELSE Outcome(Ok("Error deleting file: " \o IoError), files)
         [] name = "create_directory" ->
              IF CanCreateDir(files, path)
              THEN Outcome(Ok("Successfully created directory " \o path), CreateDir(files, path))
              ELSE Outcome(Ok("Error creating directory: " \o IoError), files)
         [] name = "append_file" ->
              IF CanCreate(files, path)
              THEN Outcome(Ok("Successfully appended to " \o path),
                           WriteFile(files, path,
                                     (IF FileExists(files, path) THEN files.files[path] ELSE "")
                                     \o content))
              ELSE Outcome(Ok("Error opening file: " \o IoError), files)
         [] name = "insert_at_line" ->
              IF ~FileExists(files, path)
              THEN Outcome(Ok("Error reading file: " \o IoError), files)
              ELSE LET line_number == AsU64Or(args, "line_number", 1)
                       lines == Lines(files.files[path])
                       insert_idx == IF line_number = 0 THEN 0
                                     ELSE Min(line_number - 1, Len(lines))
                   IN Outcome(Ok("Successfully inserted at line " \o ToString(line_number)
                                 \o " in " \o path),
                              WriteFile(files, path,
                                        Join(InsertLine(lines, insert_idx, content), "\n")))
         [] name = "replace_text" ->
              IF ~FileExists(files, path)
              THEN Outcome(Ok("Error reading file: " \o IoError), files)
              ELSE IF ~Contains(files.files[path], AsStrOr(args, "old_text", ""))
                   THEN Outcome(Ok("Error: old_text not found in " \o path), files)
                   ELSE Outcome(Ok("Successfully replaced text in " \o path),
                                WriteFile(files, path,
                                          ReplaceFirst(files.files[path],
                                                       AsStrOr(args, "old_text", ""),
                                                       AsStrOr(args, "new_text", ""))))
         [] OTHER -> Outcome(Ok("Unknown tool: " \o name), files)

\* Shell::execute_tool
ShellExecuteTool(files, name, args) ==
    IF name = "execute_command"
    THEN LET out == ShOutput(files, AsStrOr(args, "command", ""))
         IN IF out[1]
            THEN IF out[3] = ""
                 THEN Outcome(Ok("Command executed successfully (no output)"), files)
                 ELSE Outcome(Ok(out[3]), files)
            ELSE Outcome(Ok("Command failed (exit code: " \o out[2] \o ")\nstdout: "
                            \o out[3] \o "\nstderr: " \o out[4]), files)
    ELSE Outcome(Ok("Unknown tool: " \o name), files)

\* Agent::execute_tool, the default body (the coder keeps it)
DefaultExecuteTool(name, args) == Err("Unknown tool: " \o name)

\* self.execute_tool(name, arguments) on a file system, by the agent's override
Dispatch(files, agent, name, args) ==
    CASE agent = "file_manager" -> FileManagerExecuteTool(files, name, args)
      [] agent = "shell" -> ShellExecuteTool(files, name, args)
      [] OTHER -> Outcome(DefaultExecuteTool(name, args), files)

\* the Result of self.execute_tool(name, arguments) now
ExecuteTool(agent, name, args) == Dispatch(fs, agent, name, args).result

-----------------------------------------------------------------------------
(* Agent::run, the loop every worker's process() runs.                     *)

TransportError == "error sending request"

\* the empty catalogue sent as it is
ToolsOptionAlways(agent) == Some(GetTools(agent))

\* agent.rs:124-125
ToolsOption(agent) ==
    IF Len(GetTools(agent)) = 0 THEN None ELSE Some(GetTools(agent))

\* self.build_system_prompt() of each worker: the function is pure, so its
\* values are tabulated once
ComposedPrompt ==
    [agent \in {"coder", "file_manager", "shell"} |-> BuildSystemPrompt(agent)]

\* the coordinator's turns handed on to the worker
InitialConversationInherited(agent, instruction) ==
    messages \o << Message("user", Some(instruction), None) >>

\* agent.rs:130-141
InitialConversation(agent, instruction) ==
    << Message("system", Some(ComposedPrompt[agent]), None),
       Message("user", Some(instruction), None) >>

\* the budget check letting one more iteration through
BudgetExceededLate(iteration) == iteration > MAX_ITERATIONS + 1

\* agent.rs:149
BudgetExceeded(iteration) == iteration > MAX_ITERATIONS

\* the text of the most recent turn that carries text (the fallback when none)
RECURSIVE BudgetResultLastText(_)
BudgetResultLastText(msgs) ==
    IF Len(msgs) = 0 THEN "Unable to complete task after maximum attempts."
    ELSE IF IsSome(msgs[Len(msgs)].content)
         THEN "(Reached max attempts) " \o Unwrap(msgs[Len(msgs)].content)
         ELSE BudgetResultLastText(SubSeq(msgs, 1, Len(msgs) - 1))

\* the degraded result taken from the model's last reply
BudgetResultLastReply(msgs) ==
    LET replies == { i \in 1..Len(msgs) : msgs[i].role = "assistant" }
        last == CHOOSE i \in replies : \A j \in replies : j <= i
    IN IF replies # {} /\ IsSome(msgs[last].content)
       THEN "(Reached max attempts) " \o Unwrap(msgs[last].content)
       ELSE "Unable to complete task after maximum attempts."

\* agent.rs:151-156
BudgetResult(msgs) ==
    LET last_msg == msgs[Len(msgs)]
    IN IF IsSome(last_msg.content)
       THEN "(Reached max attempts) " \o Unwrap(last_msg.content)
       ELSE "Unable to complete task after maximum attempts."

\* agent.rs:162 / queen.rs:134: if let Some(tool_calls) = &response.tool_calls
HasToolCalls(response) == IsSome(response.tool_calls)

\* a placeholder instead of the default when the reply has no text
FinalResponseOrPlaceholder(response) ==
    IF IsSome(response.content) THEN Unwrap(response.content) ELSE "(no response)"

\* agent.rs:192 / queen.rs:154
FinalResponse(response) == UnwrapOrDefault(response.content)

\* the fault's text without the "Error: " mark
ToolResultTextBare(result) == result.val

\* agent.rs:172-182
ToolResultText(result) ==
    IF result.ok THEN result.val ELSE "Error: " \o result.val

\* an empty result left out of the turn
ToolTurnOrEmpty(text) == Message("tool", IF text = "" THEN None ELSE Some(text), None)

\* agent.rs:184-188 / queen.rs:146-150
ToolTurn(text) == Message("tool", Some(text), None)

\* the request carrying the last turn only
ChatRequestLastTurn(agent, msgs, tools) ==
    [from |-> agent, messages |-> <<msgs[Len(msgs)]>>, stream |-> FALSE, tools |-> tools]

\* the chat request make_request posts
ChatRequest(agent, msgs, tools) ==
    [from |-> agent, messages |-> msgs, stream |-> FALSE, tools |-> tools]

\* worker.process(instruction): Agent::run up to the loop
\* the worker's counter carried on from the coordinator's
StartRunInheriting(role, instruction) ==
    /\ wrole' = Some(role)
    /\ wmsgs' = InitialConversation(role, instruction)
    /\ witer' = qiter
    /\ wresp' = None
    /\ widx' = 0
    /\ wret' = None
    /\ wreq' = 0
    /\ wfs0' = fs
    /\ wpc' = "top"

StartRun(role, instruction) ==
    /\ wrole' = Some(role)
    /\ wmsgs' = InitialConversation(role, instruction)
    /\ witer' = 0
    /\ wresp' = None
    /\ widx' = 0
    /\ wret' = None
    /\ wreq' = 0
    /\ wfs0' = fs
    /\ wpc' = "top"

\* the loop's head when the budget is used up: return the degraded result
WBudget ==
    /\ wpc = "top"
    /\ BudgetExceeded(witer + 1)
    /\ witer' = witer + 1
    /\ wret' = Some(Ok(BudgetResult(wmsgs)))
    /\ wpc' = "ret"
    /\ UNCHANGED <<workers, fs, wfs0, mainVars, queenVars, wrole, wmsgs, wresp, widx, net, wreq>>

\* the loop's head otherwise: make_request posts the conversation
WSend ==
    /\ wpc = "top"
    /\ ~BudgetExceeded(witer + 1)
    /\ witer' = witer + 1
    /\ net' = Some(ChatRequest(Unwrap(wrole), wmsgs, ToolsOption(Unwrap(wrole))))
    /\ wreq' = wreq + 1
    /\ wpc' = "await"
    /\ UNCHANGED <<workers, fs, wfs0, mainVars, queenVars, wrole, wmsgs, wresp, widx, wret>>

\* make_request fails: `?` returns the error from run
WFail ==
    /\ wpc = "await"
    /\ net' = None
    /\ wret' = Some(Err(TransportError))
    /\ wpc' = "ret"
    /\ UNCHANGED <<workers, fs, wfs0, mainVars, queenVars, wrole, wmsgs, witer, wresp, widx, wreq>>

\* make_request returns `response`
WReceive(response) ==
    /\ wpc = "await"
    /\ net' = None
    /\ wmsgs' = Append(wmsgs, response)
    /\ wresp' = Some(response)
    /\ IF HasToolCalls(response)
       THEN /\ wret' = wret
            /\ IF Len(Unwrap(response.tool_calls)) = 0
               THEN wpc' = "top" /\ widx' = 0
               ELSE wpc' = "tools" /\ widx' = 1
       ELSE /\ wret' = Some(Ok(FinalResponse(response)))
            /\ wpc' = "ret"
            /\ widx' = 0
    /\ UNCHANGED <<workers, fs, wfs0, mainVars, queenVars, wrole, witer, wreq>>

\* the calls taken last to first
CallAtReversed(calls, idx) == calls[Len(calls) - idx + 1]

\* the idx-th pass of `for tool_call in tool_calls` (agent.rs:165, queen.rs:137)
CallAt(calls, idx) == calls[idx]

\* one pass of the for loop: dispatch a tool call, push its tool turn
WTool ==
    /\ wpc = "tools"
    /\ LET calls == Unwrap(Unwrap(wresp).tool_calls)
           call == CallAt(calls, widx)
           outcome == Dispatch(fs, Unwrap(wrole), call.name, call.arguments)
       IN /\ wmsgs' = Append(wmsgs, ToolTurn(ToolResultText(outcome.result)))
          /\ fs' = outcome.files
          /\ IF widx = Len(calls)
             THEN wpc' = "top" /\ widx' = 0
             ELSE wpc' = "tools" /\ widx' = widx + 1
    /\ UNCHANGED <<workers, wfs0, mainVars, queenVars, wrole, witer, wresp, wret, net, wreq>>

\* Agent::run as a function of the agent, the instruction, the replies the
\* backend gives (a failed request once they are used up) and the file
\* system it starts on: the conversation it ends with and the value returned.
RECURSIVE DispatchAll(_, _, _, _)
DispatchAll(agent, msgs, calls, files) ==
    IF Len(calls) = 0 THEN [messages |-> msgs, files |-> files]
    ELSE LET outcome == Dispatch(files, agent, calls[1].name, calls[1].arguments)
         IN DispatchAll(agent, Append(msgs, ToolTurn(ToolResultText(outcome.result))),
                        Tail(calls), outcome.files)

RECURSIVE RunLoop(_, _, _, _, _)
RunLoop(agent, msgs, replies, files, iteration) ==
    IF BudgetExceeded(iteration + 1)
    THEN [messages |-> msgs, ret |-> Ok(BudgetResult(msgs))]
    ELSE IF Len(replies) = 0
    THEN [messages |-> msgs, ret |-> Err(TransportError)]
    ELSE LET response == replies[1]
         IN IF HasToolCalls(response)
            THEN LET after == DispatchAll(agent, Append(msgs, response),
                                          Unwrap(response.tool_calls), files)
                 IN RunLoop(agent, after.messages, Tail(replies), after.files, iteration + 1)
            ELSE [messages |-> Append(msgs, response), ret |-> Ok(FinalResponse(response))]

Run(agent, instruction, replies, files) ==
    RunLoop(agent, InitialConversation(agent, instruction), replies, files, 0)

-----------------------------------------------------------------------------
(* The coordinator: main's session loop and Queen::run_agentic_loop.       *)

\* the roles written out in the tool spec
QueenGetToolsHardcoded(registry) ==
    << Tool("delegate_to_worker", "Delegate a task to a specialized worker",
            <<"worker", "instruction">>, {"coder", "file_manager", "researcher"}) >>

\* Queen::get_tools
QueenGetTools(registry) ==
    << Tool("delegate_to_worker", "Delegate a task to a specialized worker",
            <<"worker", "instruction">>, DOMAIN registry) >>

\* Queen::get_worker_list, the workers in the order the HashMap yields them
GetWorkerList(registry) ==
    LET roles == SetToSeq(DOMAIN registry)
    IN Join([i \in 1..Len(roles) |->
                "- **" \o registry[roles[i]].role \o "** ["
                \o registry[roles[i]].worker_type \o "]: "
                \o registry[roles[i]].description], "\n")

\* Queen::build_system_prompt (queen.rs:52-61)
QueenBuildSystemPrompt(registry) ==
    ApplyPlaceholders(Replace(SystemPrompt("queen"), "{WORKERS}", GetWorkerList(registry)),
                      CustomPlaceholders("queen"))

\* main.rs:34-38
InitialMessages == << Message("system", Some(SystemPrompt("queen")), None) >>

\* the turn put in front of the conversation
PushFront(msgs, m) == <<m>> \o msgs

\* Vec::push on the coordinator's conversation.  The model keeps the first
\* MaxTurns turns; Spec never pushes beyond them (see Room).
Push(msgs, m) == IF Len(msgs) < MaxTurns THEN Append(msgs, m) ELSE msgs

\* iteration += 1 (queen.rs:124), counted up to MaxTurns
Bump(iteration) == IF iteration < MaxTurns THEN iteration + 1 ELSE iteration

\* room in the tracked conversation for n more turns
Room(n) == Len(messages) + n <= MaxTurns

\* input.trim() (main.rs:74)
IsSpace(c) == c \in {" ", "\n", "\t"}
RECURSIVE Trim(_)
Trim(s) ==
    IF Len(s) = 0 THEN s
    ELSE IF IsSpace(SubSeq(s, 1, 1)) THEN Trim(SubSeq(s, 2, Len(s)))
    ELSE IF IsSpace(SubSeq(s, Len(s), Len(s))) THEN Trim(SubSeq(s, 1, Len(s) - 1))
    ELSE s

UpperCase == "ABCDEFGHIJKLMNOPQRSTUVWXYZ"
LowerCase == "abcdefghijklmnopqrstuvwxyz"
ToAsciiLower(c) ==
    IF \E i \in 1..26 : SubSeq(UpperCase, i, i) = c
    THEN LET i == CHOOSE i \in 1..26 : SubSeq(UpperCase, i, i) = c
         IN SubSeq(LowerCase, i, i)
    ELSE c

\* comparison letter for letter, case included
EqExactCase(a, b) == a = b

\* str::eq_ignore_ascii_case
EqIgnoreAsciiCase(a, b) ==
    /\ Len(a) = Len(b)
    /\ \A i \in 1..Len(a) :
          ToAsciiLower(SubSeq(a, i, i)) = ToAsciiLower(SubSeq(b, i, i))

\* one pass of main's loop up to the call of run_agentic_loop
MainInput(line) ==
    /\ mpc = "input"
    /\ LET input == Trim(line)
       IN IF EqIgnoreAsciiCase(input, "quit")
          THEN /\ mpc' = "quit"
               /\ UNCHANGED queenVars
          ELSE IF input = ""
          THEN UNCHANGED <<mpc, queenVars>>
          ELSE /\ messages' = Push(messages, Message("user", Some(input), None))
               /\ mpc' = "running"
               /\ qpc' = "top"
               /\ qiter' = 0
               /\ qresp' = None
               /\ qidx' = 0
               /\ qret' = None
               /\ qreq' = 0
    /\ UNCHANGED <<workers, fs, output, workerVars, net>>

\* the conversation started over after each answer
MainResumeCleared ==
    /\ mpc = "running"
    /\ qpc = "ret"
    /\ IF Unwrap(qret).ok
       THEN /\ output' = Some(Unwrap(qret).val)
            /\ mpc' = "input"
            /\ messages' = InitialMessages
       ELSE /\ output' = output
            /\ mpc' = "failed"
            /\ messages' = messages
    /\ qpc' = "idle"
    /\ UNCHANGED <<workers, fs, qiter, qresp, qidx, qret, qreq, workerVars, net>>

\* run_agentic_loop returned: print the final response, or leave main with
\* the error
MainResume ==
    /\ mpc = "running"
    /\ qpc = "ret"
    /\ IF Unwrap(qret).ok
       THEN /\ output' = Some(Unwrap(qret).val)
            /\ mpc' = "input"
       ELSE /\ output' = output
            /\ mpc' = "failed"
    /\ qpc' = "idle"
    /\ UNCHANGED <<workers, fs, messages, qiter, qresp, qidx, qret, qreq, workerVars, net>>

\* the loop's head: make_request posts the conversation (no budget check)
QSend ==
    /\ qpc = "top"
    /\ qiter' = Bump(qiter)
    /\ net' = Some(ChatRequest("queen", messages, Some(QueenGetTools(workers))))
    /\ qreq' = Bump(qreq)
    /\ qpc' = "await"
    /\ UNCHANGED <<workers, fs, mainVars, messages, qresp, qidx, qret, workerVars>>

\* make_request fails: `?` returns the error from run_agentic_loop
QFail ==
    /\ qpc = "await"
    /\ net' = None
    /\ qret' = Some(Err(TransportError))
    /\ qpc' = "ret"
    /\ UNCHANGED <<workers, fs, mainVars, messages, qiter, qresp, qidx, qreq, workerVars>>

\* make_request returns `response`
QReceive(response) ==
    /\ qpc = "await"
    /\ net' = None
    /\ messages' = Push(messages, response)
    /\ qresp' = Some(response)
    /\ IF HasToolCalls(response)
       THEN /\ qret' = qret
            /\ IF Len(Unwrap(response.tool_calls)) = 0
               THEN qpc' = "top" /\ qidx' = 0
               ELSE qpc' = "tools" /\ qidx' = 1
       ELSE /\ qret' = Some(Ok(FinalResponse(response)))
            /\ qpc' = "ret"
            /\ qidx' = 0
    /\ UNCHANGED <<workers, fs, mainVars, qiter, qreq, workerVars>>

\* the tool call the coordinator's for loop is at
QCall == CallAt(Unwrap(Unwrap(qresp).tool_calls), qidx)

\* queen.rs:95-96
\* an absent role read as the shell
WorkerNameOrShell(arguments) == AsStrOr(arguments, "worker", "shell")

WorkerName(arguments) == AsStrOr(arguments, "worker", "")
\* an instruction that is no string rendered as JSON text
InstructionRendered(arguments) ==
    LET v == Index(arguments, "instruction")
    IN IF v.kind = "string" THEN v.str
       ELSE IF v.kind = "number" THEN ToString(v.num) ELSE "null"

Instruction(arguments) == AsStrOr(arguments, "instruction", "")

\* self.workers.get(worker_name) is Some (queen.rs:100)
Registered(registry, worker_name) == worker_name \in DOMAIN registry

\* an unknown tool raised as an error instead of answered
QueenLocalResultRaising(name, arguments) ==
    IF name = "delegate_to_worker"
    THEN Ok("Error: Worker '" \o AsStrOr(arguments, "worker", "") \o "' not found")
    ELSE Err("Unknown tool: " \o name)

\* the unknown role answered without naming it
QueenLocalResultUnnamed(name, arguments) ==
    IF name = "delegate_to_worker"
    THEN Ok("Error: Worker not found")
    ELSE Ok("Error: Unknown tool '" \o name \o "'")

\* execute_tool_call where it runs no worker (queen.rs:102-110)
QueenLocalResult(name, arguments) ==
    IF name = "delegate_to_worker"
    THEN Ok("Error: Worker '" \o WorkerName(arguments) \o "' not found")
    ELSE Ok("Error: Unknown tool '" \o name \o "'")

\* push the tool turn of the call at qidx and step the for loop
QPushResult(text) ==
    /\ messages' = Push(messages, ToolTurn(text))
    /\ IF qidx = Len(Unwrap(Unwrap(qresp).tool_calls))
       THEN qpc' = "top" /\ qidx' = 0
       ELSE qpc' = "tools" /\ qidx' = qidx + 1

\* the worker started without being awaited, the for loop going on
QDelegateDetached ==
    /\ qpc = "tools"
    /\ QCall.name = "delegate_to_worker"
    /\ Registered(workers, WorkerName(QCall.arguments))
    /\ StartRun(WorkerName(QCall.arguments), Instruction(QCall.arguments))
    /\ QPushResult("started")
    /\ UNCHANGED <<workers, fs, mainVars, qiter, qresp, qret, qreq, net>>

\* execute_tool_call: delegate_to_worker with a registered role awaits
\* worker.process(instruction)
QDelegate ==
    /\ qpc = "tools"
    /\ QCall.name = "delegate_to_worker"
    /\ Registered(workers, WorkerName(QCall.arguments))
    /\ StartRun(WorkerName(QCall.arguments), Instruction(QCall.arguments))
    /\ qpc' = "delegating"
    /\ UNCHANGED <<workers, fs, mainVars, messages, qiter, qresp, qidx, qret, qreq, net>>

\* execute_tool_call: unknown role or unknown tool, answered with a string
QLocalTool ==
    /\ qpc = "tools"
    /\ ~(QCall.name = "delegate_to_worker" /\ Registered(workers, WorkerName(QCall.arguments)))
    /\ LET result == QueenLocalResult(QCall.name, QCall.arguments)
       IN IF result.ok
          THEN QPushResult(result.val) /\ qret' = qret
          ELSE /\ qret' = Some(result)
               /\ qpc' = "ret"
               /\ UNCHANGED <<messages, qidx>>
    /\ UNCHANGED <<workers, fs, mainVars, qiter, qresp, qreq, workerVars, net>>

\* the worker's run dropped: its locals are gone
WorkerIdle ==
    /\ wpc' = "idle"
    /\ wrole' = None
    /\ wmsgs' = << >>
    /\ witer' = 0
    /\ wresp' = None
    /\ widx' = 0
    /\ wret' = None
    /\ wreq' = 0
    /\ wfs0' = wfs0

\* the worker's last reply carried over into the coordinator's conversation
QJoinOkMerged ==
    /\ qpc = "delegating"
    /\ wpc = "ret"
    /\ Unwrap(wret).ok
    /\ messages' = Push(Push(messages, wmsgs[Len(wmsgs)]), ToolTurn(Unwrap(wret).val))
    /\ IF qidx = Len(Unwrap(Unwrap(qresp).tool_calls))
       THEN qpc' = "top" /\ qidx' = 0
       ELSE qpc' = "tools" /\ qidx' = qidx + 1
    /\ WorkerIdle
    /\ UNCHANGED <<workers, fs, mainVars, qiter, qresp, qret, qreq, net>>

\* worker.process returned Ok(result): result becomes the tool turn
QJoinOk ==
    /\ qpc = "delegating"
    /\ wpc = "ret"
    /\ Unwrap(wret).ok
    /\ QPushResult(Unwrap(wret).val)
    /\ WorkerIdle
    /\ UNCHANGED <<workers, fs, mainVars, qiter, qresp, qret, qreq, net>>

\* the worker's error fed back as a tool turn, the loop going on
QJoinErrAbsorbed ==
    /\ qpc = "delegating"
    /\ wpc = "ret"
    /\ ~Unwrap(wret).ok
    /\ QPushResult("Error: " \o Unwrap(wret).val)
    /\ WorkerIdle
    /\ UNCHANGED <<workers, fs, mainVars, qiter, qresp, qret, qreq, net>>

\* worker.process returned Err: `?` returns it from run_agentic_loop
QJoinErr ==
    /\ qpc = "delegating"
    /\ wpc = "ret"
    /\ ~Unwrap(wret).ok
    /\ qret' = Some(Unwrap(wret))
    /\ qpc' = "ret"
    /\ WorkerIdle
    /\ UNCHANGED <<workers, fs, mainVars, messages, qiter, qresp, qidx, qreq, net>>

-----------------------------------------------------------------------------
(* The environment's choices: input lines and backend replies.             *)

Inputs == {"\n", "quit\n", "QUIT\n", "Quit\n", "hello\n"}

Assistant(content, tool_calls) == Message("assistant", content, tool_calls)

ReadA == ToolCall("read_file", [path |-> JStr("a.txt")])
DeleteA == ToolCall("delete_file", [path |-> JStr("a.txt")])
WriteA == ToolCall("write_file", [path |-> JStr("a.txt"), content |-> JStr("new")])
ExecLs == ToolCall("execute_command", [command |-> JStr("ls")])
Bogus == ToolCall("bogus", NoArgs)

\* replies to a worker, for the worker's loop on its own
WorkerCallLists == { << >>, <<ReadA>>, <<Bogus, ExecLs>> }
WorkerReplies ==
    { Assistant(c, t) : c \in {None, Some("w")},
                        t \in {None} \cup {Some(l) : l \in WorkerCallLists} }

\* replies to a worker, for the whole system
NestedReplies ==
    { Assistant(Some("done"), None), Assistant(None, None),
      Assistant(None, Some(<<Bogus, ReadA>>)) }

Delegate(worker, instruction) ==
    ToolCall("delegate_to_worker",
             [worker |-> JStr(worker), instruction |-> JStr(instruction)])
NoWorkerArg == ToolCall("delegate_to_worker", [instruction |-> JStr("list")])
NumWorkerArg ==
    ToolCall("delegate_to_worker", [worker |-> JNumber(7), instruction |-> JStr("list")])
NoInstructionArg == ToolCall("delegate_to_worker", [worker |-> JStr("shell")])
NumInstructionArg ==
    ToolCall("delegate_to_worker", [worker |-> JStr("coder"), instruction |-> JNumber(7)])

\* replies to the coordinator
QueenCallLists ==
    { << >>,
      <<Delegate("file_manager", "read a.txt")>>,
      <<Delegate("ghost", "read a.txt")>>,
      <<NoWorkerArg>>,
      <<NumWorkerArg, ReadA>>,
      <<Delegate("coder", "write code"), NoInstructionArg>> }
QueenReplies ==
    { Assistant(Some("answer"), None), Assistant(None, None) }
    \cup { Assistant(None, Some(l)) : l \in QueenCallLists }
    \cup { Assistant(Some("thinking"), Some(<< >>)) }

CallCount(response) ==
    IF HasToolCalls(response) THEN Len(Unwrap(response.tool_calls)) ELSE 0

-----------------------------------------------------------------------------
(* Specifications.                                                         *)

Init ==
    /\ workers = QueenNew
    /\ mpc = "input"
    /\ messages = InitialMessages
    /\ output = None
    /\ qpc = "idle"
    /\ qiter = 0
    /\ qresp = None
    /\ qidx = 0
    /\ qret = None
    /\ wpc = "idle"
    /\ wrole = None
    /\ wmsgs = << >>
    /\ witer = 0
    /\ wresp = None
    /\ widx = 0
    /\ wret = None
    /\ net = None
    /\ fs = InitFiles
    /\ wfs0 = InitFiles
    /\ qreq = 0
    /\ wreq = 0

\* the whole system, the coordinator's conversation within MaxTurns
Next ==
    \/ \E line \in Inputs : Room(1) /\ MainInput(line)
    \/ MainResume
    \/ Room(1) /\ QSend
    \/ QFail
    \/ \E r \in QueenReplies : Room(1 + CallCount(r)) /\ QReceive(r)
    \/ QDelegate
    \/ QLocalTool
    \/ QJoinOk
    \/ QJoinErr
    \/ WBudget
    \/ WSend
    \/ WFail
    \/ \E r \in NestedReplies : WReceive(r)
    \/ WTool

Spec == Init /\ [][Next]_vars

\* Agent::run on its own: the states in which the coordinator's first reply
\* has just delegated to a registered role
AgentCalls ==
    { Delegate(role, instruction) :
        role \in {"coder", "file_manager", "shell"}, instruction \in {"read a.txt"} }
    \cup { NoInstructionArg }

AgentInit ==
    \E call \in AgentCalls :
        LET reply == Assistant(None, Some(<<call>>))
        IN /\ workers = QueenNew
           /\ mpc = "running"
           /\ messages = InitialMessages \o
                         << Message("user", Some("hello"), None), reply >>
           /\ output = None
           /\ qpc = "delegating"
           /\ qiter = 1
           /\ qresp = Some(reply)
           /\ qidx = 1
           /\ qret = None
           /\ wpc = "top"
           /\ wrole = Some(WorkerName(call.arguments))
           /\ wmsgs = InitialConversation(WorkerName(call.arguments),
                                          Instruction(call.arguments))
           /\ witer = 0
           /\ wresp = None
           /\ widx = 0
           /\ wret = None
           /\ net = None
           /\ fs = InitFiles
           /\ wfs0 = InitFiles
           /\ qreq = 1
           /\ wreq = 0

AgentNext ==
    \/ WBudget
    \/ WSend
    \/ WFail
    \/ \E r \in WorkerReplies : WReceive(r)
    \/ WTool

AgentSpec == AgentInit /\ [][AgentNext]_vars

\* the whole system with no bound on the coordinator's loop: turns beyond
\* MaxTurns are not recorded and the counters stop at MaxTurns.  The loops'
\* own steps are fair: every transport call and every dispatch returns.
LiveInputs == {"quit\n", "hello\n"}
LiveReplies ==
    { Assistant(Some("answer"), None),
      Assistant(None, Some(<<Delegate("ghost", "read a.txt"),
                             Delegate("file_manager", "read a.txt")>>)) }
LiveNestedReplies ==
    { Assistant(Some("done"), None), Assistant(None, Some(<<ReadA>>)) }

LoopStep ==
    \/ MainResume
    \/ QSend
    \/ QFail
    \/ \E r \in LiveReplies : QReceive(r)
    \/ QDelegate
    \/ QLocalTool
    \/ QJoinOk
    \/ QJoinErr
    \/ WBudget
    \/ WSend
    \/ WFail
    \/ \E r \in LiveNestedReplies : WReceive(r)
    \/ WTool

LiveNext ==
    \/ \E line \in LiveInputs : MainInput(line)
    \/ LoopStep

LiveSpec == Init /\ [][LiveNext]_vars /\ WF_vars(LoopStep)

\* the whole system with workers whose tools change the file system
FsInputs == {"hello\n"}
FsReplies ==
    { Assistant(Some("answer"), None),
      Assistant(None, Some(<<Delegate("file_manager", "tidy up")>>)),
      Assistant(None, Some(<<Delegate("ghost", "tidy up")>>)),
      Assistant(None, Some(<<NoInstructionArg, NumInstructionArg>>)) }
FsNestedReplies ==
    { Assistant(Some("done"), None),
      Assistant(None, Some(<<DeleteA>>)),
      Assistant(None, Some(<<WriteA, ReadA>>)) }

FsNext ==
    \/ \E line \in FsInputs : Room(1) /\ MainInput(line)
    \/ MainResume
    \/ Room(1) /\ QSend
    \/ QFail
    \/ \E r \in FsReplies : Room(1 + CallCount(r)) /\ QReceive(r)
    \/ QDelegate
    \/ QLocalTool
    \/ QJoinOk
    \/ QJoinErr
    \/ WBudget
    \/ WSend
    \/ WFail
    \/ \E r \in FsNestedReplies : WReceive(r)
    \/ WTool

FsSpec == Init /\ [][FsNext]_vars

-----------------------------------------------------------------------------
(* Properties.                                                             *)

BudgetPrefix == "(Reached max attempts) "
BudgetFallback == "Unable to complete task after maximum attempts."

\* the assistant turns of a conversation, in order
RECURSIVE Replies(_)
Replies(msgs) ==
    IF Len(msgs) = 0 THEN << >>
    ELSE IF msgs[1].role = "assistant" THEN <<msgs[1]>> \o Replies(Tail(msgs))
    ELSE Replies(Tail(msgs))

WorkerReturned == wpc = "ret" /\ IsSome(wret)
WorkerReturnedOk == WorkerReturned /\ Unwrap(wret).ok
IsBudgetText(text) == StartsWith(text, BudgetPrefix) \/ text = BudgetFallback

\* C1: a run of Agent::run posts at most MAX_ITERATIONS chat requests; at the
\* loop's head after MAX_ITERATIONS requests (every reply carried tool
\* calls) the only step is the return of the budget-exhaustion result, with
\* no further request.
C1_AtMostCeilingRequests ==
    /\ [](wreq <= MAX_ITERATIONS)
    /\ [][ (wpc = "top" /\ wreq = MAX_ITERATIONS)
             => /\ wpc' = "ret"
                /\ net' = None
                /\ wreq' = wreq
                /\ IsSome(wret') /\ Unwrap(wret').ok
                /\ IsBudgetText(Unwrap(wret').val) ]_vars

\* C1 witness: a run returned the budget result after five replies that all
\* carried tool calls.
C1_Witness ==
    /\ WorkerReturnedOk
    /\ wreq = MAX_ITERATIONS
    /\ Len(Replies(wmsgs)) = MAX_ITERATIONS
    /\ \A i \in 1..MAX_ITERATIONS : HasToolCalls(Replies(wmsgs)[i])
    /\ IsBudgetText(Unwrap(wret).val)

\* C2: run_agentic_loop posts at most MAX_ITERATIONS chat requests for one
\* instruction.
C2_QueenAtMostCeilingRequests == qreq <= MAX_ITERATIONS

\* C3: every loop that starts ends: run_agentic_loop returns once called,
\* and so does every run of Agent::run.
C3_EveryLoopReturns ==
    /\ (mpc = "running") ~> (qpc = "ret")
    /\ (wpc \in {"top", "await", "tools"}) ~> (wpc = "ret")

LastMsg(msgs) == msgs[Len(msgs)]
Failed(ret) == IsSome(ret) /\ ~Unwrap(ret).ok
TextOf(content) == IF IsSome(content) THEN Unwrap(content) ELSE ""

\* msgs ends with `response` followed by exactly k tool turns
EndsWithBlock(msgs, response, k) ==
    /\ Len(msgs) >= k + 1
    /\ msgs[Len(msgs) - k] = response
    /\ \A j \in 1..k : LET t == msgs[Len(msgs) - k + j]
                       IN t.role = "tool" /\ IsSome(t.content) /\ t.tool_calls = None

\* the j-th turn of the block of k tool turns msgs ends with
BlockTurn(msgs, k, j) == msgs[Len(msgs) - k + j]

\* the calls of the current reply whose tool turns have been pushed
Dispatched(response, idx) == IF idx > 0 THEN idx - 1 ELSE CallCount(response)

\* what a worker's dispatch of a call puts in the tool turn
WorkerResultText(role, call) ==
    LET result == ExecuteTool(role, call.name, call.arguments)
    IN IF result.ok THEN result.val ELSE "Error: " \o result.val

\* C4, state form: the conversation ends with the current reply followed by the tool
\* turns of the calls dispatched so far, the j-th turn holding the result of
\* the j-th call; a request is in flight only when every call of the reply
\* has its turn; a delegation's turn holds the worker's returned text.
C4_WorkerBlock ==
    IsSome(wresp) =>
        LET response == Unwrap(wresp)
            k == Dispatched(response, widx)
        IN /\ EndsWithBlock(wmsgs, response, k)
           /\ \A j \in 1..k :
                 BlockTurn(wmsgs, k, j).content =
                     Some(WorkerResultText(Unwrap(wrole), Unwrap(response.tool_calls)[j]))
           /\ (wpc = "await" => k = CallCount(response) /\ Unwrap(net).messages = wmsgs)

C4_QueenBlock ==
    IsSome(qresp) =>
        LET response == Unwrap(qresp)
            k == Dispatched(response, qidx)
        IN /\ EndsWithBlock(messages, response, k)
           /\ \A j \in 1..k :
                 LET call == Unwrap(response.tool_calls)[j]
                 IN (call.name # "delegate_to_worker"
                        \/ AsStrOr(call.arguments, "worker", "") \notin DOMAIN workers)
                    => BlockTurn(messages, k, j).content =
                           Some(QueenLocalResult(call.name, call.arguments).val)
           /\ (qpc = "await" => k = CallCount(response) /\ Unwrap(net).messages = messages)

C4_DelegationTurn ==
    (qpc = "delegating" /\ messages' # messages)
        => /\ WorkerReturnedOk
           /\ messages' = Append(messages, Message("tool", Some(Unwrap(wret).val), None))

\* the worker's pass for the idx-th call pushes the result that call gives
\* on the file system of that moment
C4_WorkerDispatchStep ==
    (wpc = "tools")
    => wmsgs' = Append(wmsgs, Message("tool",
                    Some(WorkerResultText(Unwrap(wrole),
                                          Unwrap(Unwrap(wresp).tool_calls)[widx])), None))

\* C4: in both loops a reply's tool invocations are dispatched in the order
\* received, one tool turn each directly after the reply, the i-th turn holding
\* the i-th result; the next request is posted only after all of them.
C4_ToolTurnsInOrder ==
    /\ [](C4_WorkerBlock /\ C4_QueenBlock)
    /\ [][C4_DelegationTurn /\ C4_WorkerDispatchStep]_vars

\* C4 witness: the coordinator posts its next request after a reply with two
\* calls, both turns pushed.
C4_Witness ==
    /\ qpc = "await"
    /\ IsSome(qresp)
    /\ CallCount(Unwrap(qresp)) = 2
    /\ EndsWithBlock(messages, Unwrap(qresp), 2)

\* C5, step form: when a worker's dispatch returns an error, Agent::run pushes the tool
\* turn "Error: <fault>" and goes on; every request carries the conversation,
\* so the next one shows the fault.
C5_FaultStep ==
    (wpc = "tools"
       /\ ~ExecuteTool(Unwrap(wrole), CallAt(Unwrap(Unwrap(wresp).tool_calls), widx).name,
                       CallAt(Unwrap(Unwrap(wresp).tool_calls), widx).arguments).ok)
    => LET call == CallAt(Unwrap(Unwrap(wresp).tool_calls), widx)
           fault == ExecuteTool(Unwrap(wrole), call.name, call.arguments).val
       IN /\ wmsgs' = Append(wmsgs, Message("tool", Some("Error: " \o fault), None))
          /\ wpc' \in {"tools", "top"}
          /\ wret' = None

\* C5: a failing dispatch in Agent::run never aborts the run: its tool turn
\* reads "Error: <fault>" and the next request carries that turn.
C5_ToolFaultFedBack ==
    /\ [][C5_FaultStep]_vars
    /\ []((wpc = "await") => (IsSome(net) /\ Unwrap(net).messages = wmsgs))

\* C5 witness: a request in flight that carries an "Error: " turn of a fault.
C5_Witness ==
    /\ wpc = "await"
    /\ IsSome(net)
    /\ \E i \in 1..Len(Unwrap(net).messages) :
          Unwrap(net).messages[i] = Message("tool", Some("Error: Unknown tool: bogus"), None)

\* C6, step form: a loop returns an error exactly when a chat request failed, its own
\* or one of the worker loop nested in it; every other fault ends as text.
C6_WorkerErrStep ==
    /\ (~Failed(wret) /\ Failed(wret'))
          => (wpc = "await" /\ IsSome(net) /\ net' = None /\ wmsgs' = wmsgs
              /\ Unwrap(wret').val = TransportError)
    /\ (wpc = "await" /\ wpc' # "await" /\ wmsgs' = wmsgs) => Failed(wret')

C6_QueenErrStep ==
    /\ (~Failed(qret) /\ Failed(qret'))
          => \/ (qpc = "await" /\ IsSome(net) /\ net' = None /\ messages' = messages
                 /\ Unwrap(qret').val = TransportError)
             \/ (qpc = "delegating" /\ Failed(wret) /\ qret' = wret)
    /\ (qpc = "await" /\ qpc' # "await" /\ messages' = messages) => Failed(qret')
    /\ (qpc = "delegating" /\ Failed(wret) /\ qpc' # "delegating") => Failed(qret')

\* C6: Agent::run and run_agentic_loop return an error if and only if a chat
\* request failed, in the loop itself or in the worker loop nested under it.
C6_OnlyTransportErrorsEscape ==
    /\ [][C6_WorkerErrStep /\ C6_QueenErrStep]_vars
    /\ []((mpc = "failed") => (Failed(qret) /\ Unwrap(qret).val = TransportError))

\* C6 witness: an instruction failed after an unknown role had been answered
\* in text.
C6_Witness ==
    /\ mpc = "failed"
    /\ \E i \in 1..Len(messages) :
          messages[i] = Message("tool", Some("Error: Worker 'ghost' not found"), None)

\* C7, step form: once a chat request has failed, no request is posted, no tool is
\* dispatched and no turn is pushed any more; a worker's failure makes
\* run_agentic_loop return that error with the conversation as it was.
Aborted == Failed(wret) \/ Failed(qret) \/ mpc = "failed"

C7_AbortStep ==
    /\ Aborted =>
          /\ Aborted'
          /\ net' = None
          /\ messages' = messages
          /\ wmsgs' \in {wmsgs, << >>}
          /\ qreq' = qreq
          /\ wreq' \in {wreq, 0}
          /\ qpc' \in {"ret", "idle"}
          /\ wpc' \in {"ret", "idle"}
    /\ (qpc = "delegating" /\ Failed(wret))
          => (qret' = wret /\ qpc' = "ret" /\ messages' = messages)

\* C7: a failed chat request is never retried and aborts the instruction: no
\* request, dispatch or turn follows it, and a worker's failure is returned by
\* the coordinator without a tool turn for the delegation.
C7_NoRetryAfterTransportFailure == [][C7_AbortStep]_vars

\* C7 witness: the session failed in a delegation, the reply's calls left
\* without tool turns.
C7_Witness ==
    /\ mpc = "failed"
    /\ LastMsg(messages).role = "assistant"
    /\ CallCount(LastMsg(messages)) > 0

\* C8, step form: delegate_to_worker with a role outside the registry pushes one tool
\* turn whose text contains that role, starts no worker, posts no request,
\* and the coordinator's loop goes on.
C8_UnknownRoleStep ==
    (qpc = "tools"
       /\ QCall.name = "delegate_to_worker"
       /\ AsStrOr(QCall.arguments, "worker", "") \notin DOMAIN workers)
    => /\ Len(messages') = Len(messages) + 1
       /\ SubSeq(messages', 1, Len(messages)) = messages
       /\ LET t == LastMsg(messages')
          IN /\ t.role = "tool"
             /\ t.tool_calls = None
             /\ IsSome(t.content)
             /\ Contains(Unwrap(t.content), AsStrOr(QCall.arguments, "worker", ""))
       /\ wpc = "idle" /\ wpc' = "idle"
       /\ net' = None
       /\ wreq' = wreq /\ qreq' = qreq
       /\ qpc' \in {"tools", "top"}
       /\ qret' = None

\* C8: a delegation to a role outside the registry is answered by a tool turn
\* naming the role; no worker loop starts, no request is posted for it, and
\* the coordinator's loop continues.
C8_UnknownRoleAnsweredInText == [][C8_UnknownRoleStep]_vars

\* C8 witness: the coordinator posts its next request with the answer to the
\* unknown role "ghost" as the last turn.
C8_Witness ==
    /\ qpc = "await"
    /\ LastMsg(messages) = Message("tool", Some("Error: Worker 'ghost' not found"), None)
    /\ Unwrap(net).messages = messages

\* C9, step form: a reply without tool_calls is pushed and ends the loop at once: no
\* further request, the result its text or "" when it has none; a first
\* such reply means exactly one request was posted.
C9_WorkerFinalStep ==
    (wpc = "await" /\ Len(wmsgs') = Len(wmsgs) + 1 /\ LastMsg(wmsgs').tool_calls = None)
    => /\ wpc' = "ret"
       /\ net' = None
       /\ wreq' = wreq
       /\ wret' = Some(Ok(TextOf(LastMsg(wmsgs').content)))
       /\ (Len(wmsgs) = 2 => wreq = 1)

C9_QueenFinalStep ==
    (qpc = "await" /\ Len(messages') = Len(messages) + 1 /\ LastMsg(messages').tool_calls = None)
    => /\ qpc' = "ret"
       /\ net' = None
       /\ qreq' = qreq
       /\ qret' = Some(Ok(TextOf(LastMsg(messages').content)))
       /\ (LastMsg(messages).role = "user" => qreq = 1)

\* C9: a reply without tool_calls is appended and ends the loop with its text
\* ("" when absent) and no further request; as a first reply, after exactly
\* one request.
C9_ContentOnlyReplyEndsLoop ==
    /\ [][C9_WorkerFinalStep /\ C9_QueenFinalStep]_vars
    /\ []((qpc = "ret" \/ wpc = "ret") => net = None)

\* C9 witness: the coordinator's first reply had neither text nor tool
\* calls; the loop returned "" after one request.
C9_Witness ==
    /\ qpc = "ret"
    /\ qret = Some(Ok(""))
    /\ qreq = 1
    /\ LastMsg(messages) = Assistant(None, None)

\* a run of Agent::run that ended on the budget check
BudgetReturn == wpc = "ret" /\ witer > MAX_ITERATIONS /\ IsSome(wret)

\* the last turn of msgs that carries text (an Option)
RECURSIVE LastTextTurn(_)
LastTextTurn(msgs) ==
    IF Len(msgs) = 0 THEN None
    ELSE IF IsSome(LastMsg(msgs).content) THEN LastMsg(msgs).content
    ELSE LastTextTurn(SubSeq(msgs, 1, Len(msgs) - 1))

C11_DelegationStep ==
    /\ (qpc = "tools" /\ qpc' = "delegating")
          => /\ wpc = "idle" /\ wpc' = "top"
             /\ wrole' = Some(AsStrOr(QCall.arguments, "worker", ""))
             /\ Len(wmsgs') = 2
             /\ wmsgs'[2] = Message("user",
                                    Some(AsStrOr(QCall.arguments, "instruction", "")), None)
             /\ messages' = messages
    /\ (wpc' = "top" /\ wpc \in {"idle", "ret"}) => (qpc = "tools" /\ qpc' = "delegating")
    /\ (qpc = "delegating" /\ qpc' = "delegating") => messages' = messages
    /\ (qpc = "delegating" /\ qpc' # "delegating")
          => /\ wpc = "ret" /\ wpc' = "idle"
             /\ Unwrap(wret).ok
                   => messages' = Append(messages,
                                         Message("tool", Some(Unwrap(wret).val), None))

\* C11: a delegation to a registered role runs that worker's loop exactly
\* once with the instruction as its user turn, and the loop's final text (a
\* budget-exhaustion result included) becomes exactly one tool turn of the
\* coordinator's conversation; no other turn of the worker is added.
C11_DelegationYieldsOneToolTurn ==
    /\ [][C11_DelegationStep]_vars
    /\ [](qpc = "delegating" <=> wpc # "idle")

\* C11 witness: the coordinator's conversation ends with the tool turn of a
\* delegation whose worker ran out of budget.
C11_Witness ==
    /\ wpc = "idle"
    /\ qpc \in {"top", "tools"}
    /\ LastMsg(messages).role = "tool"
    /\ StartsWith(Unwrap(LastMsg(messages).content), BudgetPrefix)

\* the run that has returned, as Run states it
Returned == [messages |-> wmsgs, ret |-> Unwrap(wret)]

\* C12, step form: Agent::run starts on exactly two turns, the system turn
\* with the composed prompt and the user turn with the instruction, and on
\* counters at zero.
C12_StartStep ==
    (wpc \in {"idle", "ret"} /\ wpc' = "top")
    => /\ wmsgs' = << Message("system", Some(ComposedPrompt[Unwrap(wrole')]), None),
                      Message("user", Some(AsStrOr(QCall.arguments, "instruction", "")), None) >>
       /\ witer' = 0 /\ wreq' = 0 /\ wresp' = None /\ wret' = None

Outstanding ==
    (IF qpc = "await" THEN 1 ELSE 0) + (IF wpc = "await" THEN 1 ELSE 0)

\* msgs2 is msgs, or msgs with one assistant turn appended
SameOrReplyAppended(msgs, msgs2) ==
    \/ msgs2 = msgs
    \/ /\ Len(msgs2) = Len(msgs) + 1
       /\ SubSeq(msgs2, 1, Len(msgs)) = msgs
       /\ msgs2[Len(msgs2)].role = "assistant"

\* C13, step form: while a request is outstanding the only step is its
\* return (no dispatch, no turn but the reply's); while the worker's loop
\* runs the coordinator stays at the delegation, posting and dispatching
\* nothing.
C13_Step ==
    /\ IsSome(net)
          => /\ net' = None
             /\ fs' = fs
             /\ qidx' \in {qidx, 0, 1} /\ widx' \in {widx, 0, 1}
             /\ SameOrReplyAppended(messages, messages')
             /\ SameOrReplyAppended(wmsgs, wmsgs')
             /\ (qpc = "await" => wmsgs' = wmsgs)
             /\ (wpc = "await" => messages' = messages)
    /\ (qpc = "delegating" /\ wpc # "ret")
          => /\ qpc' = "delegating"
             /\ qreq' = qreq /\ qiter' = qiter /\ qidx' = qidx
             /\ messages' = messages

\* C13: at most one chat request is outstanding at any time across the
\* coordinator and the workers; while it is, nothing is dispatched and no
\* turn appended, and while a delegated worker runs the coordinator posts no
\* request and dispatches no further invocation of the reply.
C13_OneRequestAtATime ==
    /\ [](Outstanding <= 1)
    /\ [](IsSome(net) <=> Outstanding = 1)
    /\ [](wpc # "idle" => qpc = "delegating")
    /\ [][C13_Step]_vars

\* C13 witness: a worker's request is outstanding while the coordinator is
\* at the first of two invocations of its reply.
C13_Witness ==
    /\ qpc = "delegating"
    /\ wpc = "await"
    /\ IsSome(net) /\ Unwrap(net).from # "queen"
    /\ CallCount(Unwrap(qresp)) = 2
    /\ qidx = 1

\* the prompts composition gives the coordinator: Queen::build_system_prompt's
\* and Agent::build_system_prompt's
QueenComposedPrompts == { QueenBuildSystemPrompt(QueenNew), BuildSystemPrompt("queen") }

\* the turns of msgs with role system
SystemTurns(msgs) == { i \in 1..Len(msgs) : msgs[i].role = "system" }

\* C14: the first turn of every conversation, the coordinator's included, is
\* its single system turn and holds the agent's composed prompt, not the raw
\* template.
C14_SystemTurnIsComposedPrompt ==
    /\ SystemTurns(messages) = {1}
    /\ IsSome(messages[1].content)
    /\ Unwrap(messages[1].content) \in QueenComposedPrompts
    /\ (wpc # "idle")
          => /\ SystemTurns(wmsgs) = {1}
             /\ wmsgs[1].content = Some(ComposedPrompt[Unwrap(wrole)])

\* the agent of the running Agent::run has an empty tool catalogue
EmptyCatalogue == IsSome(wrole) /\ Len(GetTools(Unwrap(wrole))) = 0

\* C15 as stated: an agent with an empty catalogue ends after exactly one
\* chat request, whatever the reply.
C15_EmptyCatalogueOneRequest ==
    EmptyCatalogue => /\ wreq <= 1
                      /\ (wreq = 1 /\ wpc # "await" => wpc = "ret")

\* a first reply without tool_calls ends the run after its one request
C15_FirstReplyStep ==
    (EmptyCatalogue /\ wpc = "await" /\ wreq = 1
       /\ Len(wmsgs') = Len(wmsgs) + 1 /\ ~HasToolCalls(wmsgs'[Len(wmsgs')]))
    => (wpc' = "ret" /\ wreq' = 1 /\ Unwrap(wret').ok)

\* C15 amended: an agent with an empty catalogue sends no catalogue and ends
\* after exactly one chat request when the reply carries no tool_calls; tool
\* calls the reply carries all the same are answered "Error: Unknown tool:
\* <name>" and the loop goes on, within the ceiling.
C15_EmptyCatalogueEndsOnPlainReply ==
    /\ []((EmptyCatalogue /\ wpc = "await") => Unwrap(net).tools = None)
    /\ [][C15_FirstReplyStep]_vars
    /\ [](EmptyCatalogue => wreq <= MAX_ITERATIONS)
    /\ [](EmptyCatalogue =>
             \A i \in 1..Len(wmsgs) :
                 wmsgs[i].role = "tool"
                    => StartsWith(Unwrap(wmsgs[i].content), "Error: Unknown tool: "))

\* C15 witness: the coder returned after one request and one plain reply.
C15_Witness ==
    /\ wrole = Some("coder")
    /\ WorkerReturnedOk
    /\ wreq = 1
    /\ Len(wmsgs) = 3

\* C16: a dispatch never returns an error value: an unknown tool name or
\* bad arguments give a descriptive string (with the name when it is unknown),
\* in the workers' dispatchers and in the coordinator's.
C16_DispatchNeverRaises ==
    /\ (wpc = "tools")
          => LET call == CallAt(Unwrap(Unwrap(wresp).tool_calls), widx)
                 result == ExecuteTool(Unwrap(wrole), call.name, call.arguments)
             IN /\ result.ok
                /\ (\A i \in 1..Len(GetTools(Unwrap(wrole))) :
                        GetTools(Unwrap(wrole))[i].name # call.name)
                      => Contains(result.val, call.name)
    /\ \A call \in {Bogus, ReadA, NoWorkerArg, NumWorkerArg} :
          QueenLocalResult(call.name, call.arguments).ok

\* C17: at every request of the coordinator the worker parameter's allowed
\* values in the delegate_to_worker spec are exactly the registry's roles:
\* every role offered resolves on lookup and every registered worker is
\* offered.
C17_OfferedRolesAreRegistry ==
    (qpc = "await")
    => LET tools == Unwrap(Unwrap(net).tools)
       IN /\ Len(tools) = 1
          /\ tools[1].name = "delegate_to_worker"
          /\ tools[1].parameters.enum = DOMAIN workers
          /\ \A role \in tools[1].parameters.enum : Registered(workers, role)
          /\ \A f \in Factories : Construct(f).role \in tools[1].parameters.enum

\* C17 witness: a later request of the coordinator, after a delegation,
\* offers the three registered roles.
C17_Witness ==
    /\ qpc = "await"
    /\ qreq >= 2
    /\ LastMsg(messages).role = "tool"
    /\ Unwrap(Unwrap(net).tools)[1].parameters.enum = {"coder", "file_manager", "shell"}

\* C18: the registry is what Queen::new built from the factories, one
\* worker per role and each under its own role, and no step changes it.
C18_RegistryBuiltOnceReadOnly ==
    /\ [](/\ Cardinality(DOMAIN workers) = Cardinality(Factories)
          /\ \A f \in Factories :
                /\ Construct(f).role \in DOMAIN workers
                /\ workers[Construct(f).role] = Construct(f)
          /\ \A role \in DOMAIN workers : workers[role].role = role)
    /\ [][workers' = workers]_vars

\* C18 witness: the session failed in a delegation after an earlier tool
\* turn; the registry still holds the three workers.
C18_Witness ==
    /\ mpc = "failed"
    /\ \E i \in 1..Len(messages) : messages[i].role = "tool"
    /\ DOMAIN workers = {"coder", "file_manager", "shell"}

IsPrefix(a, b) == Len(a) <= Len(b) /\ SubSeq(b, 1, Len(a)) = a

WorkerRunning == wpc \in {"top", "await", "tools"}

\* C19, step form: every step keeps the turns a conversation has, in place,
\* and at most appends; the coordinator's conversation is appended to by
\* main and run_agentic_loop only, the worker's by its Agent::run only.
C19_Step ==
    /\ IsPrefix(messages, messages')
    /\ (WorkerRunning /\ wpc' # "idle") => IsPrefix(wmsgs, wmsgs')
    /\ WorkerRunning => messages' = messages
    /\ (messages' # messages)
          => \/ mpc = "input"
             \/ qpc \in {"await", "tools"}
             \/ (qpc = "delegating" /\ wpc = "ret")
    /\ (WorkerRunning /\ wmsgs' # wmsgs)
          => (qpc = "delegating" /\ qpc' = "delegating" /\ wpc' # "idle")

\* C19: during a loop run the conversation only grows at its end, no turn
\* removed, reordered or modified, and only the loop that owns it appends.
C19_ConversationOnlyGrows == [][C19_Step]_vars

\* C19 witness: both conversations have grown by replies and tool turns.
C19_Witness ==
    /\ wpc = "tools"
    /\ Len(wmsgs) >= 5
    /\ Len(messages) >= 6

\* every tool turn of msgs carries text, no invocations, and lies in the
\* block of tool turns right after an assistant turn with invocations
ToolTurnsWellFormed(msgs) ==
    \A i \in 1..Len(msgs) :
        (msgs[i].role = "tool")
        => /\ IsSome(msgs[i].content)
           /\ msgs[i].tool_calls = None
           /\ \E j \in 1..(i - 1) :
                 /\ msgs[j].role = "assistant"
                 /\ HasToolCalls(msgs[j])
                 /\ i - j <= CallCount(msgs[j])
                 /\ \A k \in (j + 1)..i : msgs[k].role = "tool"

\* C20: in every conversation each tool turn carries text and no tool
\* invocations and belongs to the block directly after an assistant turn
\* that carried invocations.
C20_ToolTurnsWellFormed ==
    ToolTurnsWellFormed(messages) /\ ToolTurnsWellFormed(wmsgs)

\* C20 witness: the coordinator's conversation holds a block of two tool
\* turns, one of them with empty text, and the worker's holds a tool turn.
C20_Witness ==
    /\ \E i \in 1..(Len(messages) - 1) :
          messages[i].role = "tool" /\ messages[i + 1].role = "tool"
    /\ \E i \in 1..Len(messages) : messages[i] = Message("tool", Some(""), None)
    /\ \E i \in 1..Len(wmsgs) : wmsgs[i].role = "tool"

\* the turns of msgs with role user
UserTurns(msgs) == { i \in 1..Len(msgs) : msgs[i].role = "user" }

\* C21, step form: an instruction starts on the conversation as it stands
\* with the new user turn appended; the normal end of an instruction leaves
\* the conversation as it is; no step drops a turn.
C21_Step ==
    /\ (mpc = "input" /\ mpc' = "running")
          => /\ Len(messages') = Len(messages) + 1
             /\ SubSeq(messages', 1, Len(messages)) = messages
             /\ messages'[Len(messages')].role = "user"
    /\ (mpc = "running" /\ mpc' = "input") => messages' = messages
    /\ Len(messages) <= Len(messages') /\ SubSeq(messages', 1, Len(messages)) = messages

\* C21: the coordinator's conversation is retained across instructions:
\* instruction k+1 starts on the conversation instruction k ended with plus
\* the new user turn, and every request carries all the turns so far.
C21_ConversationRetained ==
    /\ [][C21_Step]_vars
    /\ []((qpc = "await") => Unwrap(net).messages = messages)

\* C21 witness: a request of a second instruction carries the assistant and
\* tool turns of the first.
C21_Witness ==
    /\ qpc = "await"
    /\ Cardinality(UserTurns(messages)) = 2
    /\ \E i, j, k \in 1..Len(Unwrap(net).messages) :
          /\ i < j /\ j < k
          /\ Unwrap(net).messages[i].role = "tool"
          /\ Unwrap(net).messages[j].role = "assistant"
          /\ Unwrap(net).messages[k].role = "user"

\* the catalogue an agent's requests carry
CatalogueOf(agent) ==
    IF Len(GetTools(agent)) = 0 THEN None ELSE Some(GetTools(agent))

\* C22: every chat request carries the whole conversation of its loop as it
\* stands, in order, with the agent's whole tool catalogue (the same on every
\* request of a run, no catalogue when the agent has none).
C22_RequestCarriesConversationAndCatalogue ==
    /\ (qpc = "await")
          => /\ Unwrap(net).messages = messages
             /\ Unwrap(net).tools = Some(QueenGetTools(workers))
    /\ (wpc = "await")
          => /\ Unwrap(net).messages = wmsgs
             /\ Unwrap(net).tools = CatalogueOf(Unwrap(wrole))
    /\ (IsSome(net)) => (qpc = "await" \/ wpc = "await")

\* C22 witness: the file manager's third request carries its conversation
\* with tool turns and its eight tools.
C22_Witness ==
    /\ wpc = "await"
    /\ wreq = 3
    /\ Len(Unwrap(net).messages) >= 6
    /\ IsSome(Unwrap(net).tools)
    /\ Len(Unwrap(Unwrap(net).tools)) = 8

\* the template with every bound placeholder replaced by its value in one pass
\* from left to right, the replaced text not being looked at again
RECURSIVE Filled(_, _)
Filled(template, bindings) ==
    LET hits == { i \in 1..Len(template) :
                    \E k \in 1..Len(bindings) :
                        /\ i + Len(bindings[k][1]) - 1 <= Len(template)
                        /\ SubSeq(template, i, i + Len(bindings[k][1]) - 1)
                               = bindings[k][1] }
    IN IF hits = {} THEN template
       ELSE LET first == CHOOSE i \in hits : \A j \in hits : i <= j
                k == CHOOSE n \in 1..Len(bindings) :
                        /\ first + Len(bindings[n][1]) - 1 <= Len(template)
                        /\ SubSeq(template, first, first + Len(bindings[n][1]) - 1)
                               = bindings[n][1]
            IN SubSeq(template, 1, first - 1) \o bindings[k][2]
               \o Filled(SubSeq(template, first + Len(bindings[k][1]), Len(template)),
                         bindings)

\* what the claim takes a worker's composed prompt to be
FilledWorkerPrompt(agent) ==
    Filled(SystemPrompt(agent),
           <<  <<"{TOOLS}", ToolsList(GetTools(agent))>> >> \o CustomPlaceholders(agent))
        \o REASONING_INSTRUCTIONS

\* the coordinator's template with its worker list and placeholders filled in
FilledQueenTemplate ==
    Filled(SystemPrompt("queen"),
           <<  <<"{WORKERS}", GetWorkerList(workers)>> >> \o CustomPlaceholders("queen"))

\* the workers' half of C24: each worker's composed prompt is its template
\* filled in, followed by the iteration-budget block
C24_WorkerPromptsFilled ==
    \A agent \in DOMAIN workers : ComposedPrompt[agent] = FilledWorkerPrompt(agent)

\* C24: every agent's composed prompt is its template with the supplied
\* placeholders and the tool list filled in, the others left verbatim,
\* followed by the fixed iteration-budget block; here also for the
\* coordinator's Queen::build_system_prompt.
C24_ComposedPromptIsFilledTemplate ==
    /\ C24_WorkerPromptsFilled
    /\ QueenBuildSystemPrompt(workers) = FilledQueenTemplate \o REASONING_INSTRUCTIONS

\* what Queen::build_system_prompt returns: the filled template without the
\* block
C24_QueenPromptWithoutBlock ==
    QueenBuildSystemPrompt(workers) = FilledQueenTemplate

\* the invocation the coordinator's for loop stands at names a registered role
NamesRegisteredRole ==
    /\ qpc = "tools"
    /\ QCall.name = "delegate_to_worker"
    /\ AsStrOr(QCall.arguments, "worker", "") \in DOMAIN workers

\* C25, step form: a worker run starts exactly in the step that dispatches a
\* delegate_to_worker invocation naming a registered role, and runs that role;
\* dispatching any other invocation, and reading user input, start none.
C25_Step ==
    /\ (wpc = "idle" /\ wpc' # "idle")
          => /\ NamesRegisteredRole
             /\ mpc = "running" /\ mpc' = "running"
             /\ qpc' = "delegating"
             /\ wpc' = "top"
             /\ wrole' = Some(AsStrOr(QCall.arguments, "worker", ""))
    /\ (NamesRegisteredRole /\ (qpc' # qpc \/ qidx' # qidx))
          => (wpc = "idle" /\ wpc' = "top")
    /\ (qpc = "tools" /\ ~NamesRegisteredRole) => (wpc = "idle" /\ wpc' = "idle")
    /\ (mpc # "running") => (wpc = "idle" /\ wpc' = "idle")

\* C25: worker loops start only as the execution of delegate_to_worker
\* invocations naming a registered role, one run per such invocation
\* dispatched, never from user input; a worker runs only while the
\* coordinator waits for it.
C25_WorkerRunsAreDelegations ==
    /\ [][C25_Step]_vars
    /\ [](wpc # "idle" => (qpc = "delegating" /\ mpc = "running"))

\* C25 witness: the second delegation of one reply has started its run, the
\* first one's result being the last turn of the conversation.
C25_Witness ==
    /\ wpc = "top"
    /\ wreq = 0
    /\ qpc = "delegating"
    /\ qidx = 2
    /\ messages[Len(messages)].role = "tool"

\* the reply a loop received last carries a present but empty tool_calls list
\* and is the last turn of its conversation
EmptyCallListReply(pc, resp, msgs) ==
    /\ pc # "idle"
    /\ IsSome(resp)
    /\ Unwrap(resp).tool_calls = Some(<< >>)
    /\ LastMsg(msgs) = Unwrap(resp)

\* C26: a reply whose tool_calls list is present but empty is treated like a
\* content-only reply: the loop has returned the reply's text and issues no
\* further request.
C26_EmptyCallListEndsLoop ==
    /\ EmptyCallListReply(qpc, qresp, messages)
          => (qpc = "ret" /\ qret = Some(Ok(FinalResponse(Unwrap(qresp)))))
    /\ EmptyCallListReply(wpc, wresp, wmsgs)
          => (wpc = "ret" /\ wret = Some(Ok(FinalResponse(Unwrap(wresp)))))

\* what the loops do with such a reply: they go round again and post the
\* conversation once more, returning only through the budget or a failure
C26_EmptyCallListGoesRound ==
    /\ EmptyCallListReply(qpc, qresp, messages)
          => (qpc \in {"top", "await"} \/ (qpc = "ret" /\ Failed(qret)))
    /\ EmptyCallListReply(wpc, wresp, wmsgs)
          => \/ wpc \in {"top", "await"}
             \/ (wpc = "ret" /\ (Failed(wret) \/ BudgetReturn))

\* the last invocation of the reply the worker received last
LastCall == Unwrap(Unwrap(wresp).tool_calls)[CallCount(Unwrap(wresp))]

\* C27, step form: the invocations of the last permitted reply are still
\* dispatched, each leaving its tool turn, and no request follows them.
C27_Step ==
    (wpc = "tools" /\ wreq = MAX_ITERATIONS /\ wmsgs' # wmsgs)
        => /\ wmsgs' = Append(wmsgs,
                  ToolTurn(WorkerResultText(Unwrap(wrole),
                      Unwrap(Unwrap(wresp).tool_calls)[widx])))
           /\ wreq' = wreq
           /\ net' = None

\* C27: Agent::run checks the ceiling only before a request, so the
\* invocations of the 5th reply are dispatched and their tool turns appended;
\* when that reply carried an invocation, the run returns
\* "(Reached max attempts) " followed by the result text of its last invocation.
C27_LastReplyStillDispatched ==
    /\ [][C27_Step]_vars
    /\ []((BudgetReturn /\ IsSome(wresp) /\ CallCount(Unwrap(wresp)) >= 1)
            => /\ wreq = MAX_ITERATIONS
               /\ EndsWithBlock(wmsgs, Unwrap(wresp), CallCount(Unwrap(wresp)))
               /\ wret = Some(Ok(BudgetPrefix
                        \o WorkerResultText(Unwrap(wrole), LastCall))))

\* C27 witness: the shell's 5th reply carried two invocations; the run
\* returned the prefix and the listing its last invocation produced.
C27_Witness ==
    /\ BudgetReturn
    /\ wrole = Some("shell")
    /\ wreq = MAX_ITERATIONS
    /\ CallCount(Unwrap(wresp)) = 2
    /\ wmsgs[Len(wmsgs)].role = "tool"
    /\ Unwrap(wret).ok
    /\ StartsWith(Unwrap(wret).val, BudgetPrefix)
    /\ Contains(Unwrap(wret).val, "a.txt")

\* C28, step form: a run starts with its counter at zero; it returns through
\* the budget only after 5 requests of its own, and below 5 the loop head
\* posts a request; the worker's steps leave the coordinator's counter alone
\* and the coordinator's leave the worker's.
C28_Step ==
    /\ (wpc = "idle" /\ wpc' # "idle") => (witer' = 0 /\ wreq' = 0)
    /\ (wpc = "top" /\ wpc' = "ret") => (wreq = MAX_ITERATIONS /\ witer = MAX_ITERATIONS)
    /\ (wpc = "top" /\ wreq < MAX_ITERATIONS /\ wpc' # wpc)
          => (wpc' = "await" /\ wreq' = wreq + 1 /\ witer' = witer + 1)
    /\ (wpc # "idle") => (qiter' = qiter /\ qreq' = qreq)
    /\ (wpc # "idle" /\ wpc' # "idle" /\ (qpc' # qpc \/ messages' # messages))
          => (witer' = witer /\ wreq' = wreq)

\* C28: the iteration counter is local to a run: every delegation starts
\* the worker at zero with 5 requests to make, whatever the coordinator or
\* earlier delegations have made, and the worker's requests do not count
\* for the coordinator.
C28_CounterLocalToRun ==
    /\ [][C28_Step]_vars
    /\ [](wpc # "idle" => (wreq <= MAX_ITERATIONS /\ witer <= MAX_ITERATIONS + 1))

\* C28 witness: after an earlier delegation and two requests of the
\* coordinator, a worker posts its 5th request.
C28_Witness ==
    /\ wpc = "await"
    /\ wreq = MAX_ITERATIONS
    /\ qreq >= 2
    /\ \E i \in 1..Len(messages) : messages[i].role = "tool"

\* the spellings of quit the input alphabet holds, and the empty line
QuitOrEmpty == {"", "quit", "QUIT", "Quit"}

\* C29, step form: from the prompt the session either ends on quit, with no
\* turn appended and no request, or starts an instruction on a line that is
\* neither empty nor quit (an empty line changes nothing); once the session
\* has ended nothing happens any more; a failure of run_agentic_loop ends the
\* session with the conversation as the failure left it.
C29_Step ==
    /\ (mpc = "input")
          => \/ /\ mpc' = "quit"
                /\ messages' = messages /\ net' = None /\ qreq' = qreq /\ qpc' = "idle"
             \/ /\ mpc' = "running"
                /\ messages' = Append(messages, LastMsg(messages'))
                /\ LastMsg(messages').role = "user"
                /\ IsSome(LastMsg(messages').content)
                /\ Unwrap(LastMsg(messages').content) \notin QuitOrEmpty
                /\ net' = None /\ qreq' = 0
    /\ (mpc \in {"quit", "failed"}) => (vars' = vars)
    /\ (mpc = "running" /\ mpc' = "failed") => (Failed(qret) /\ messages' = messages)
    /\ (~Failed(qret) /\ Failed(qret')) => messages' = messages

\* C29: an empty line appends no turn and posts no request; quit in any
\* letter case ends the session without a request; a transport failure ends
\* the session for good, the instruction's user turn and the turns appended
\* before the failure staying in the conversation.
C29_SessionLoop ==
    /\ [][C29_Step]_vars
    /\ []((mpc = "failed")
            => /\ net = None /\ qpc = "idle" /\ wpc = "idle"
               /\ UserTurns(messages) # {})
    /\ []((mpc = "quit") => (net = None /\ qpc = "idle" /\ wpc = "idle"))

\* C29 witness: the session has ended on a transport failure in its second
\* instruction, after a tool turn of that instruction was appended.
C29_Witness ==
    /\ mpc = "failed"
    /\ Cardinality(UserTurns(messages)) = 2
    /\ LastMsg(messages).role = "tool"

\* the invocation at hand carries no instruction that is a string
NoStringInstruction ==
    \/ "instruction" \notin DOMAIN QCall.arguments
    \/ QCall.arguments["instruction"].kind # "string"

\* C30, step form: dispatching a delegate_to_worker invocation that names a
\* registered role starts that worker's run and returns no error string; its
\* user turn is the instruction, or the empty string when the instruction is
\* absent or no string.
C30_Step ==
    (NamesRegisteredRole /\ (qpc' # qpc \/ qidx' # qidx))
        => /\ wpc' = "top"
           /\ qpc' = "delegating"
           /\ messages' = messages
           /\ wrole' = Some(QCall.arguments["worker"].str)
           /\ Len(wmsgs') = 2
           /\ wmsgs'[2] = Message("user",
                  Some(IF NoStringInstruction THEN ""
                       ELSE QCall.arguments["instruction"].str), None)

\* C30: a delegate_to_worker invocation naming a registered role always
\* runs the worker's loop; with the instruction absent or not a string the
\* worker runs with the empty string as its user turn.
C30_RunsWithEmptyInstruction ==
    [][C30_Step]_vars

\* C30 witness: the coder runs on the empty user turn of an invocation whose
\* instruction is a number, after the shell ran on one without instruction.
C30_Witness ==
    /\ wpc = "await"
    /\ wrole = Some("coder")
    /\ qidx = 2
    /\ QCall = NumInstructionArg
    /\ wmsgs[2] = Message("user", Some(""), None)
    /\ Unwrap(net).messages = wmsgs

====
